---- MODULE Spec2Model ----
(***************************************************************************)
(* A model of the tool server of Project-Khepri.                           *)
(*                                                                         *)
(*   src/main.py   the operation library (imported by coder.py as `tools`) *)
(*   src/coder.py  the FastMCP registrations: one `async def` tool per     *)
(*                 library function                                        *)
(*                                                                         *)
(* Text is a sequence of atoms.  An atom is one character; the two fixed   *)
(* runs of the plan header that hold no line break ("# Project Action      *)
(* Plan", "Working Directory: ") and the working directory are atoms too.  *)
(* The platform is POSIX: os.linesep is "\n".                              *)
(*                                                                         *)
(* Three specifications share the variables:                               *)
(*   Spec      one caller, one call after the other; every action is a     *)
(*             whole handler.                                              *)
(*   SpecLoop  one server process: the handlers of coder.py are coroutines *)
(*             of one event loop and hold no await.                        *)
(*   SpecConc  the plan operations of main.py run by independent workers   *)
(*             (threads of an embedding caller, or one server process per  *)
(*             client in the same working directory), one host call per    *)
(*             step.                                                       *)
(***************************************************************************)
EXTENDS Integers, Sequences, FiniteSets, TLC

VARIABLES
    fs,         \* the host file system: path -> node
    registry,   \* the tool names FastMCP holds, in registration order
    last,       \* the last call made and what it gave back
    prevWrite,  \* history: the call before `last`, when it was a successful overwrite
    planLog,    \* history: the plan calls since (and with) the latest create_plan
    planOnly,   \* history: every call so far was create_plan or append_plan
    n,          \* calls made so far
    task,       \* SpecLoop: invocation -> its request and position
    pc,         \* SpecConc: worker -> position in its plan operation
    loc         \* SpecConc: worker -> its locals and return value

vars == <<fs, registry, last, prevWrite, planLog, planOnly, n, task, pc, loc>>

-----------------------------------------------------------------------------
(* Bounds and inputs *)

MaxOps == 3

MaxTasks == 2

Workers == {"w1", "w2"}

CR == "\r"
LF == "\n"

\* The contents the tools are called with: plain text, text ending in a lone
\* carriage return, and a CR LF pair.
Contents == { <<"a">>, <<"b">>, <<"a", CR>>, <<CR, LF>> }

PlanDir == "project_plan"
PlanFile == "project_plan/action_plan.md"
Notes == "notes.txt"
SpoolLog == "spool.log"

Paths == {PlanDir, PlanFile, Notes, SpoolLog}

\* The paths the file tools are called with.
UserPaths == {Notes, SpoolLog, PlanDir}

DirArgs == {PlanDir, SpoolLog}

ListArgs == {".", PlanDir}

Modes == {"w", "a"}

\* Commands: one that exits 0, one that exits 7, one that subprocess.run
\* rejects before spawning (an embedded NUL raises ValueError).
Commands == {"true", "exit 7", "nul"}

NetStates == {"up", "down"}

Cwd == "/work"

NoText == <<>>

None == [path |-> "", content |-> NoText]

-----------------------------------------------------------------------------
(* Text *)

RECURSIVE UniversalNewlines(_)
\* Reading in text mode with newline=None: "\r\n" and a lone "\r" become "\n".
UniversalNewlines(s) ==
    IF s = <<>> THEN <<>>
    ELSE IF Head(s) = CR
         THEN IF Len(s) >= 2 /\ s[2] = LF
              THEN <<LF>> \o UniversalNewlines(SubSeq(s, 3, Len(s)))
              ELSE <<LF>> \o UniversalNewlines(Tail(s))
         ELSE <<Head(s)>> \o UniversalNewlines(Tail(s))

LineSep == <<LF>>

RECURSIVE WriteNewlines(_)
\* Writing in text mode with newline=None: "\n" becomes os.linesep.
WriteNewlines(s) ==
    IF s = <<>> THEN <<>>
    ELSE (IF Head(s) = LF THEN LineSep ELSE <<Head(s)>>) \o WriteNewlines(Tail(s))

TitleLine == "# Project Action Plan"
DirLabel == "Working Directory: "

\* f"# Project Action Plan\n\nWorking Directory: {current_dir}\n\n"
Header == <<TitleLine, LF, LF, DirLabel, Cwd, LF, LF>>

OccursAt(s, t, i) ==
    /\ i >= 1
    /\ i + Len(t) - 1 <= Len(s)
    /\ SubSeq(s, i, i + Len(t) - 1) = t

Occurs(s, t) == \E i \in 1..(Len(s) + 1) : OccursAt(s, t, i)

OccursAfter(s, t1, t2) ==
    \E i, j \in 1..(Len(s) + 1) :
        OccursAt(s, t1, i) /\ OccursAt(s, t2, j) /\ j >= i + Len(t1)

-----------------------------------------------------------------------------
(* The host file system *)

NoNode == [kind |-> "none", data |-> NoText, readable |-> TRUE]
DirNode == [kind |-> "dir", data |-> NoText, readable |-> TRUE]

ParentKind(f, p) == IF p = PlanFile THEN f[PlanDir].kind ELSE "dir"

\* errno of open(p, mode), "" when it opens.
OpenError(f, p, mode) ==
    IF ParentKind(f, p) = "none" THEN "ENOENT"
    ELSE IF ParentKind(f, p) = "file" THEN "ENOTDIR"
    ELSE IF f[p].kind = "dir" THEN "EISDIR"
    ELSE IF mode = "r" /\ f[p].kind = "none" THEN "ENOENT"
    ELSE IF mode = "r" /\ ~f[p].readable THEN "EACCES"
    ELSE ""

\* Path.exists(): stat() with ENOENT and ENOTDIR read as "no".
Exists(f, p) == ParentKind(f, p) = "dir" /\ f[p].kind # "none"

-----------------------------------------------------------------------------
(* main.py: the operation library.  An operation gives                     *)
(*   [fs |-> the file system after it, raised |-> the exception that left  *)
(*    it ("" when it returned), env |-> the dictionary it returned].       *)

Returned(f, e) == [fs |-> f, raised |-> "", env |-> e]
Raised(f, x) == [fs |-> f, raised |-> x, env |-> <<>>]

\* What subprocess.run(command, shell=True, ...) does with a command.
run_command(f, command) ==
    IF command = "nul"
    THEN Returned(f, [stdout |-> NoText, stderr |-> <<"embedded null byte">>, exit_code |-> 1])
    ELSE Returned(f, [stdout |-> NoText, stderr |-> NoText,
                      exit_code |-> IF command = "exit 7" THEN 7 ELSE 0])

read_file_raw(f, p) ==
    IF OpenError(f, p, "r") # ""
    THEN Returned(f, [content |-> NoText, error |-> OpenError(f, p, "r"), success |-> FALSE])
    ELSE Returned(f, [content |-> f[p].data, success |-> TRUE])

read_file(f, p) ==
    IF OpenError(f, p, "r") # ""
    THEN Returned(f, [content |-> NoText, error |-> OpenError(f, p, "r"), success |-> FALSE])
    ELSE Returned(f, [content |-> UniversalNewlines(f[p].data), success |-> TRUE])

\* The characters of an atom.
Width(a) ==
    IF a = TitleLine THEN 21 ELSE IF a = DirLabel THEN 19 ELSE IF a = Cwd THEN 5 ELSE 1

RECURSIVE CharLen(_)
CharLen(s) == IF s = <<>> THEN 0 ELSE Width(Head(s)) + CharLen(Tail(s))

RECURSIVE DropChars(_, _)
\* s without its first k characters.  The runs of the header stand at offset 0
\* of a file and are written there whole, so no run is cut in two.
DropChars(s, k) ==
    IF k <= 0 \/ s = <<>> THEN s ELSE DropChars(Tail(s), k - Width(Head(s)))

\* open(file_path, mode) that opens: 'w' creates the file or truncates it, 'a'
\* creates it when it is missing.
FileOpen(f, p, mode) ==
    [f EXCEPT ![p] =
        [kind |-> "file",
         data |-> IF mode = "w" THEN NoText ELSE f[p].data,
         readable |-> IF f[p].kind = "file" THEN f[p].readable ELSE TRUE]]

\* f.write(content) and the close that flushes it: with 'a' the text goes to
\* the end of what the file holds by then, with 'w' to offset 0, over what the
\* file holds by then and leaving what lies beyond the text.
FileWrite(f, p, c, mode) ==
    [f EXCEPT ![p].data =
        IF mode = "a"
        THEN f[p].data \o WriteNewlines(c)
        ELSE WriteNewlines(c) \o DropChars(f[p].data, CharLen(WriteNewlines(c)))]

write_file(f, p, c, mode) ==
    IF OpenError(f, p, mode) # ""
    THEN Returned(f, [success |-> FALSE, error |-> OpenError(f, p, mode)])
    ELSE Returned(FileWrite(FileOpen(f, p, mode), p, c, mode), [success |-> TRUE])

append_file_truncating(f, p, c) == write_file(f, p, c, "w")

append_file(f, p, c) == write_file(f, p, c, "a")

\* requests.get: a response for every HTTP status, an exception when no response
\* arrives.  The provider answers a search without credentials with a 4xx.
HttpGet(net, authorised) ==
    IF net = "down" THEN [raised |-> "ConnectionError", status |-> 0, text |-> NoText]
    ELSE IF authorised THEN [raised |-> "", status |-> 200, text |-> <<"body">>]
    ELSE [raised |-> "", status |-> 403, text |-> <<"denied">>]

web_search(f, net, creds) ==
    IF HttpGet(net, creds).raised # ""
    THEN Returned(f, [results |-> NoText, error |-> HttpGet(net, creds).raised, success |-> FALSE])
    ELSE Returned(f, [results |-> HttpGet(net, creds).text, success |-> TRUE])

web_fetch(f, net, served) ==
    IF HttpGet(net, served).raised # ""
    THEN Returned(f, [content |-> NoText, error |-> HttpGet(net, served).raised, success |-> FALSE])
    ELSE Returned(f, [content |-> HttpGet(net, served).text, success |-> TRUE])

\* Path("project_plan").mkdir(exist_ok=True), outside any try.
PlanMkdir(f) ==
    IF f[PlanDir].kind = "file" THEN Raised(f, "FileExistsError")
    ELSE Returned([f EXCEPT ![PlanDir] = DirNode], <<>>)

create_project_plan(f, c) ==
    IF PlanMkdir(f).raised # "" THEN PlanMkdir(f)
    ELSE write_file(PlanMkdir(f).fs, PlanFile, Header \o c, "w")

PlanInitAlways(f) == write_file(f, PlanFile, Header, "w").fs

\* The file system after the `if not plan_file.exists()` block.
PlanInit(f) ==
    IF Exists(f, PlanFile) THEN f ELSE write_file(f, PlanFile, Header, "w").fs

append_to_project_plan(f, c) == append_file(PlanInit(f), PlanFile, <<LF>> \o c)

read_project_plan(f) == read_file(f, PlanFile)

\* os.listdir: the entry names, in no order.
list_directory(f, d) ==
    IF d = "."
    THEN Returned(f, [contents |-> {p \in {PlanDir, Notes, SpoolLog} : f[p].kind # "none"},
                      success |-> TRUE])
    ELSE IF f[d].kind = "none"
    THEN Returned(f, [contents |-> {}, error |-> "ENOENT", success |-> FALSE])
    ELSE IF f[d].kind = "file"
    THEN Returned(f, [contents |-> {}, error |-> "ENOTDIR", success |-> FALSE])
    ELSE Returned(f, [contents |-> IF f[PlanFile].kind # "none" THEN {"action_plan.md"} ELSE {},
                      success |-> TRUE])

\* os.stat; the sizes and the timestamps of the host are not modelled.
get_file_info(f, p) ==
    IF f[p].kind = "none"
    THEN Returned(f, [info |-> <<>>, error |-> "ENOENT", success |-> FALSE])
    ELSE Returned(f, [info |-> [is_directory |-> f[p].kind = "dir", is_file |-> f[p].kind = "file"],
                      success |-> TRUE])

\* os.makedirs(p, exist_ok=True)
create_directory(f, p) ==
    IF f[p].kind = "file"
    THEN Returned(f, [success |-> FALSE, error |-> "EEXIST"])
    ELSE Returned([f EXCEPT ![p] = DirNode], [success |-> TRUE])

\* The names get_functions_schema lists: func.__name__ of the twelve functions.
FunctionsSchema ==
    << "run_command", "read_file", "write_file", "append_file",
       "web_search", "web_fetch", "create_project_plan",
       "append_to_project_plan", "read_project_plan",
       "list_directory", "get_file_info", "create_directory" >>

-----------------------------------------------------------------------------
(* coder.py: the registrations *)

\* The @mcp.tool() functions, in the order the module defines them.
RegisteredTools ==
    << "execute_command", "read_file_content", "write_file_content", "append_to_file",
       "search_web", "fetch_url", "create_plan", "append_plan", "read_plan",
       "list_dir", "get_file_details", "create_dir" >>

Range(s) == {s[i] : i \in 1..Len(s)}

\* The dispatcher invokes the names it holds.
Accepts(name) == name \in Range(registry)

-----------------------------------------------------------------------------
(* Spec: one call after the other *)

NoCall ==
    [tool |-> "none", path |-> "", content |-> NoText, mode |-> "", host |-> "",
     raised |-> "", env |-> <<>>]

CallRec(tool, path, content, mode, host, r) ==
    [tool |-> tool, path |-> path, content |-> content, mode |-> mode, host |-> host,
     raised |-> r.raised, env |-> r.env]

Succeeded(call) ==
    /\ call.raised = ""
    /\ "success" \in DOMAIN call.env
    /\ call.env.success = TRUE

\* One call through the tool `tool`, whose library function gave r.
Call(tool, path, content, mode, host, r) ==
    /\ n < MaxOps
    /\ n' = n + 1
    /\ fs' = r.fs
    /\ last' = CallRec(tool, path, content, mode, host, r)
    /\ prevWrite' = IF last.tool = "write_file_content" /\ last.mode = "w" /\ Succeeded(last)
                    THEN [path |-> last.path, content |-> last.content]
                    ELSE None
    /\ planLog' = IF tool = "create_plan"
                  THEN << [op |-> "create", content |-> content, ok |-> Succeeded(last')] >>
                  ELSE IF tool = "append_plan"
                  THEN Append(planLog, [op |-> "append", content |-> content, ok |-> Succeeded(last')])
                  ELSE planLog
    /\ planOnly' = (planOnly /\ tool \in {"create_plan", "append_plan"})
    /\ UNCHANGED <<registry, task, pc, loc>>

execute_command ==
    \E command \in Commands :
        Call("execute_command", "", NoText, "", command, run_command(fs, command))

read_file_content ==
    \E p \in UserPaths :
        Call("read_file_content", p, NoText, "", "", read_file(fs, p))

write_file_content ==
    \E mode \in Modes, c \in Contents, p \in UserPaths :
        Call("write_file_content", p, c, mode, "", write_file(fs, p, c, mode))

append_to_file ==
    \E p \in UserPaths, c \in Contents :
        Call("append_to_file", p, c, "a", "", append_file(fs, p, c))

search_web ==
    \E net \in NetStates, creds \in BOOLEAN :
        Call("search_web", "", NoText, "",
             IF net = "down" THEN "down" ELSE IF creds THEN "ok" ELSE "rejected",
             web_search(fs, net, creds))

fetch_url ==
    \E net \in NetStates, served \in BOOLEAN :
        Call("fetch_url", "", NoText, "",
             IF net = "down" THEN "down" ELSE IF served THEN "ok" ELSE "rejected",
             web_fetch(fs, net, served))

create_plan ==
    \E c \in Contents :
        Call("create_plan", PlanFile, c, "", "", create_project_plan(fs, c))

append_plan ==
    \E c \in Contents :
        Call("append_plan", PlanFile, c, "", "", append_to_project_plan(fs, c))

read_plan == Call("read_plan", PlanFile, NoText, "", "", read_project_plan(fs))

list_dir ==
    \E d \in ListArgs :
        Call("list_dir", d, NoText, "", "", list_directory(fs, d))

get_file_details ==
    \E p \in UserPaths :
        Call("get_file_details", p, NoText, "", "", get_file_info(fs, p))

create_dir ==
    \E p \in DirArgs :
        Call("create_dir", p, NoText, "", "", create_directory(fs, p))

\* The dispatcher's tools/list.
list_tools ==
    Call("list_tools", "", NoText, "", "", Returned(fs, [names |-> registry]))

\* python main.py with no argument prints get_functions_schema().
get_functions_schema ==
    Call("get_functions_schema", "", NoText, "", "", Returned(fs, [names |-> FunctionsSchema]))

\* The working directory the process starts in: project_plan/ may be there
\* already; spool.log is a file the process may write and may not read.
InitFs(planDirKind) ==
    [p \in Paths |->
        IF p = PlanDir /\ planDirKind = "dir" THEN DirNode
        ELSE IF p = SpoolLog THEN [kind |-> "file", data |-> NoText, readable |-> FALSE]
        ELSE NoNode]

FreeTask == [tool |-> "none", path |-> "", content |-> NoText, host |-> "", at |-> "free"]

InitIdle ==
    /\ task = [i \in 1..MaxTasks |-> FreeTask]
    /\ pc = [w \in Workers |-> "idle"]
    /\ loc = [w \in Workers |-> [op |-> "none", content |-> NoText, saw |-> FALSE, ok |-> FALSE]]

Init ==
    /\ \E k \in {"none", "dir"} : fs = InitFs(k)
    /\ registry = RegisteredTools
    /\ last = NoCall
    /\ prevWrite = None
    /\ planLog = <<>>
    /\ planOnly = TRUE
    /\ n = 0
    /\ InitIdle

Next ==
    \/ execute_command
    \/ read_file_content
    \/ write_file_content
    \/ append_to_file
    \/ search_web
    \/ fetch_url
    \/ create_plan
    \/ append_plan
    \/ read_plan
    \/ list_dir
    \/ get_file_details
    \/ create_dir
    \/ list_tools
    \/ get_functions_schema

Spec == Init /\ [][Next]_vars

-----------------------------------------------------------------------------
(* SpecLoop: one server process.  Every tool of coder.py is an `async def`  *)
(* whose body is one synchronous call of the library and holds no await: a  *)
(* handler that has started keeps the event loop's thread until it returns, *)
(* and subprocess.run keeps it for as long as the command runs.             *)

Tasks == 1..MaxTasks

\* The requests a client sends in this specification.
LoopRequests ==
    {[tool |-> "execute_command", path |-> "", content |-> NoText, host |-> c, at |-> "pending"] :
        c \in Commands}
    \cup {[tool |-> "read_file_content", path |-> Notes, content |-> NoText, host |-> "", at |-> "pending"]}
    \cup {[tool |-> "write_file_content", path |-> Notes, content |-> c, host |-> "", at |-> "pending"] :
        c \in Contents}

\* The loop's thread is inside no handler.
LoopFree == \A i \in Tasks : task[i].at # "blocked"

\* What the handler of a request returns.
Handle(f, rq) ==
    IF rq.tool = "execute_command" THEN run_command(f, rq.host)
    ELSE IF rq.tool = "read_file_content" THEN read_file(f, rq.path)
    ELSE write_file(f, rq.path, rq.content, "w")

LoopUnchanged == UNCHANGED <<registry, prevWrite, planLog, planOnly, pc, loc>>

\* A client sends a request; the server makes a task of it.
LoopReceive(i) ==
    /\ n < MaxOps
    /\ task[i].at = "free"
    /\ \E rq \in LoopRequests : task' = [task EXCEPT ![i] = rq]
    /\ n' = n + 1
    /\ UNCHANGED <<fs, last>>
    /\ LoopUnchanged

\* The loop starts the handler of a pending task.  A command that spawns
\* keeps the thread in subprocess.run; every other handler runs to its return.
LoopStart(i) ==
    /\ LoopFree
    /\ task[i].at = "pending"
    /\ IF task[i].tool = "execute_command" /\ task[i].host # "nul"
       THEN /\ task' = [task EXCEPT ![i].at = "blocked"]
            /\ UNCHANGED <<fs, last>>
       ELSE /\ task' = [task EXCEPT ![i].at = "done"]
            /\ fs' = Handle(fs, task[i]).fs
            /\ last' = CallRec(task[i].tool, task[i].path, task[i].content, "",
                               task[i].host, Handle(fs, task[i]))
    /\ UNCHANGED n
    /\ LoopUnchanged

\* The command ends: subprocess.run returns and so does the handler.
LoopCommandExit(i) ==
    /\ task[i].at = "blocked"
    /\ task' = [task EXCEPT ![i].at = "done"]
    /\ fs' = Handle(fs, task[i]).fs
    /\ last' = CallRec(task[i].tool, "", NoText, "", task[i].host, Handle(fs, task[i]))
    /\ UNCHANGED n
    /\ LoopUnchanged

\* The response is sent.
LoopReply(i) ==
    /\ task[i].at = "done"
    /\ task' = [task EXCEPT ![i] = FreeTask]
    /\ UNCHANGED <<fs, last, n>>
    /\ LoopUnchanged

InitLoop ==
    /\ fs = InitFs("none")
    /\ registry = RegisteredTools
    /\ last = NoCall
    /\ prevWrite = None
    /\ planLog = <<>>
    /\ planOnly = TRUE
    /\ n = 0
    /\ InitIdle

NextLoop ==
    \E i \in Tasks :
        \/ LoopReceive(i)
        \/ LoopStart(i)
        \/ LoopCommandExit(i)
        \/ LoopReply(i)

SpecLoop == InitLoop /\ [][NextLoop]_vars

\* C5 (as stated): while an execute_command invocation waits for its command,
\* a pending invocation of another tool can start (and, its handler being one
\* step, return) before the command ends.
C5_BlockingCommandStallsNoOne ==
    \A i, j \in Tasks :
        (task[i].at = "blocked" /\ task[j].at = "pending" /\ task[j].tool # "execute_command")
            => ENABLED LoopStart(j)

-----------------------------------------------------------------------------
(* SpecConc: create_project_plan and append_to_project_plan of main.py run  *)
(* by workers that share the working directory and nothing else; a step is  *)
(* one host call of the function.  write_file is two of them: the open,     *)
(* which creates or truncates the file, and the write that the close of the *)
(* `with` block flushes.                                                    *)

InFlight ==
    {"create_mkdir", "create_open", "create_write",
     "append_check", "append_init_open", "append_init_write",
     "append_open", "append_write"}

ConcUnchanged == UNCHANGED <<registry, last, prevWrite, planLog, planOnly, task>>

\* A worker is called with create_project_plan(c) or append_to_project_plan(c).
ConcCall(w) ==
    /\ n < MaxOps
    /\ pc[w] = "idle"
    /\ \E op \in {"create", "append"}, c \in Contents :
          /\ loc' = [loc EXCEPT ![w] = [op |-> op, content |-> c, saw |-> FALSE, ok |-> FALSE]]
          /\ pc' = [pc EXCEPT ![w] = IF op = "create" THEN "create_mkdir" ELSE "append_check"]
    /\ n' = n + 1
    /\ UNCHANGED fs
    /\ ConcUnchanged

\* A worker at `from` opens the plan file: on an error write_file returns its
\* Failure and the worker is at `failed`, else it holds the open file at `opened`.
ConcOpen(w, from, mode, opened, failed) ==
    /\ pc[w] = from
    /\ IF OpenError(fs, PlanFile, mode) # ""
       THEN /\ fs' = fs
            /\ pc' = [pc EXCEPT ![w] = failed]
       ELSE /\ fs' = FileOpen(fs, PlanFile, mode)
            /\ pc' = [pc EXCEPT ![w] = opened]
    /\ UNCHANGED <<loc, n>>
    /\ ConcUnchanged

\* plan_dir.mkdir(exist_ok=True)
CreateMkdir(w) ==
    /\ pc[w] = "create_mkdir"
    /\ fs' = PlanMkdir(fs).fs
    /\ pc' = [pc EXCEPT ![w] = IF PlanMkdir(fs).raised # "" THEN "raised" ELSE "create_open"]
    /\ UNCHANGED <<loc, n>>
    /\ ConcUnchanged

\* write_file(str(plan_file), plan_with_dir): open(file_path, 'w')
CreateOpen(w) == ConcOpen(w, "create_open", "w", "create_write", "returned")

\* write_file(str(plan_file), plan_with_dir): f.write, close, return
CreateWrite(w) ==
    /\ pc[w] = "create_write"
    /\ fs' = FileWrite(fs, PlanFile, Header \o loc[w].content, "w")
    /\ loc' = [loc EXCEPT ![w].ok = TRUE]
    /\ pc' = [pc EXCEPT ![w] = "returned"]
    /\ UNCHANGED n
    /\ ConcUnchanged

\* if not plan_file.exists():
AppendCheck(w) ==
    /\ pc[w] = "append_check"
    /\ loc' = [loc EXCEPT ![w].saw = Exists(fs, PlanFile)]
    /\ pc' = [pc EXCEPT ![w] = IF Exists(fs, PlanFile) THEN "append_open" ELSE "append_init_open"]
    /\ UNCHANGED <<fs, n>>
    /\ ConcUnchanged

AppendInitOpenLocked(w) ==
    /\ \A v \in Workers \ {w} : pc[v] \notin InFlight
    /\ ConcOpen(w, "append_init_open", "w", "append_init_write", "append_open")

\* write_file(str(plan_file), initial_content): open(file_path, 'w'); the
\* Failure of an open that fails is dropped
AppendInitOpen(w) == ConcOpen(w, "append_init_open", "w", "append_init_write", "append_open")

\* write_file(str(plan_file), initial_content): f.write, close; result dropped
AppendInitWrite(w) ==
    /\ pc[w] = "append_init_write"
    /\ fs' = FileWrite(fs, PlanFile, Header, "w")
    /\ pc' = [pc EXCEPT ![w] = "append_open"]
    /\ UNCHANGED <<loc, n>>
    /\ ConcUnchanged

\* append_file(str(plan_file), f"\n{additional_content}"): open(file_path, 'a')
AppendOpen(w) == ConcOpen(w, "append_open", "a", "append_write", "returned")

\* append_file(str(plan_file), f"\n{additional_content}"): f.write, close, return
AppendWrite(w) ==
    /\ pc[w] = "append_write"
    /\ fs' = FileWrite(fs, PlanFile, <<LF>> \o loc[w].content, "a")
    /\ loc' = [loc EXCEPT ![w].ok = TRUE]
    /\ pc' = [pc EXCEPT ![w] = "returned"]
    /\ UNCHANGED n
    /\ ConcUnchanged

PlanStep(w) ==
    \/ CreateMkdir(w)
    \/ CreateOpen(w)
    \/ CreateWrite(w)
    \/ AppendCheck(w)
    \/ AppendInitOpen(w)
    \/ AppendInitWrite(w)
    \/ AppendOpen(w)
    \/ AppendWrite(w)

InitConc ==
    /\ \E k \in {"none", "dir"} : fs = InitFs(k)
    /\ registry = RegisteredTools
    /\ last = NoCall
    /\ prevWrite = None
    /\ planLog = <<>>
    /\ planOnly = TRUE
    /\ n = 0
    /\ InitIdle

NextConc ==
    \E w \in Workers :
        \/ ConcCall(w)
        \/ CreateMkdir(w)
        \/ CreateOpen(w)
        \/ CreateWrite(w)
        \/ AppendCheck(w)
        \/ AppendInitOpen(w)
        \/ AppendInitWrite(w)
        \/ AppendOpen(w)
        \/ AppendWrite(w)

SpecConc == InitConc /\ [][NextConc]_vars

\* C6: nothing guards the plan document: an invocation that is in flight can
\* take its next step (its existence check, an open, a write) whatever the
\* position of the other invocations.
C6_NoPlanLock ==
    \A w \in Workers : pc[w] \in InFlight => ENABLED PlanStep(w)

\* C6's case: both invocations have returned, one of them an append_plan that
\* returned success=true, and its chunk is not in the document: the header
\* write of the other append_plan truncated or overwrote it.
C6_Witness ==
    \E w \in Workers :
        /\ \A v \in Workers : pc[v] = "returned" /\ loc[v].op = "append"
        /\ loc[w].ok
        /\ fs[PlanFile].kind = "file"
        /\ ~Occurs(fs[PlanFile].data, <<LF>> \o loc[w].content)

-----------------------------------------------------------------------------
(* Claims checked under Spec *)

IsToolCall == last.tool \in Range(RegisteredTools)

\* C1 (as stated): whatever tool was invoked and however its host effect went,
\* the call returned an envelope that holds a boolean field 'success'.
C1_EveryEnvelopeHasSuccess ==
    IsToolCall =>
        /\ last.raised = ""
        /\ "success" \in DOMAIN last.env
        /\ last.env.success \in BOOLEAN

\* C2 (as stated): no operation lets a failing host call escape as an
\* exception; every call returns.
C2_NoExceptionEscapes == IsToolCall => last.raised = ""

\* C3 (as stated): read_plan after a successful create_plan(c1) holds the title
\* line, the working-directory line and c1; after a further successful
\* append_plan(c2) it holds c1 and, after it, c2.
C3_PlanRoundTripVerbatim ==
    (last.tool = "read_plan" /\ Len(planLog) \in {1, 2} /\ planLog[1].op = "create"
        /\ \A i \in 1..Len(planLog) : planLog[i].ok) =>
        /\ Succeeded(last)
        /\ Occurs(last.env.content, <<TitleLine, LF>>)
        /\ Occurs(last.env.content, <<DirLabel, Cwd, LF>>)
        /\ Occurs(last.env.content, planLog[1].content)
        /\ Len(planLog) = 2 =>
               OccursAfter(last.env.content, planLog[1].content, planLog[2].content)

\* C3 (amended): the same, with c1 and c2 as text mode reads them back: every
\* "\r\n" and every lone "\r" of the content is a "\n" in what read_plan returns.
C3_PlanRoundTrip ==
    (last.tool = "read_plan" /\ Len(planLog) \in {1, 2} /\ planLog[1].op = "create"
        /\ \A i \in 1..Len(planLog) : planLog[i].ok) =>
        /\ Succeeded(last)
        /\ Occurs(last.env.content, <<TitleLine, LF>>)
        /\ Occurs(last.env.content, <<DirLabel, Cwd, LF>>)
        /\ Occurs(last.env.content, UniversalNewlines(planLog[1].content))
        /\ Len(planLog) = 2 =>
               OccursAfter(last.env.content, UniversalNewlines(planLog[1].content),
                           UniversalNewlines(planLog[2].content))

\* C3's case: create_plan(c1) with a carriage return in c1, append_plan(c2) with
\* another content, both successful, then read_plan.
C3_Witness ==
    /\ last.tool = "read_plan"
    /\ Succeeded(last)
    /\ Len(planLog) = 2
    /\ planLog[1].op = "create" /\ planLog[1].ok
    /\ planLog[2].op = "append" /\ planLog[2].ok
    /\ CR \in Range(planLog[1].content)
    /\ planLog[2].content # planLog[1].content

\* C4 (as stated): append_plan called while the plan document is absent leaves
\* the document holding the header, a newline and the content, and returns
\* success=true.
C4_AppendCreatesPlan ==
    [][ (~Exists(fs, PlanFile) /\ n' = n + 1 /\ last'.tool = "append_plan") =>
            /\ Succeeded(last')
            /\ fs'[PlanFile].kind = "file"
            /\ fs'[PlanFile].data = Header \o <<LF>> \o last'.content ]_vars

\* C7 (as stated): search_web and fetch_url return success=true exactly when the
\* request succeeded; every other outcome, an HTTP-level rejection included, is
\* a Failure envelope with an error and an empty payload.
C7_NetworkFailuresAreFailures ==
    (last.tool \in {"search_web", "fetch_url"}) =>
        /\ last.raised = ""
        /\ last.env.success = (last.host = "ok")
        /\ ~last.env.success =>
               /\ "error" \in DOMAIN last.env
               /\ (last.tool = "search_web" => last.env.results = NoText)
               /\ (last.tool = "fetch_url" => last.env.content = NoText)

\* C8 (as stated): the catalog never changes, and every listing of it is the
\* same non-empty sequence of distinct names, in registration order, each one a
\* name the dispatcher accepts.
C8_CatalogFixedAndInvocable ==
    /\ registry = RegisteredTools
    /\ (last.tool \in {"list_tools", "get_functions_schema"}) =>
           /\ last.env.names # <<>>
           /\ last.env.names = registry
           /\ \A i, j \in 1..Len(last.env.names) :
                  last.env.names[i] = last.env.names[j] => i = j
           /\ \A i \in 1..Len(last.env.names) : Accepts(last.env.names[i])

IsReadAfterOverwrite ==
    /\ last.tool = "read_file_content"
    /\ prevWrite # None
    /\ last.path = prevWrite.path

\* C9 (as stated): read_file_content right after a successful overwriting
\* write_file_content(path, c) succeeds with content exactly c.
C9_FileRoundTripVerbatim ==
    IsReadAfterOverwrite => Succeeded(last) /\ last.env.content = prevWrite.content

\* C9 (amended): read_file_content right after a successful overwriting
\* write_file_content(path, c) never raises, and when it succeeds its content is
\* c with every "\r\n" and every lone "\r" replaced by "\n".
C9_FileRoundTrip ==
    IsReadAfterOverwrite =>
        /\ last.raised = ""
        /\ Succeeded(last) => last.env.content = UniversalNewlines(prevWrite.content)
        /\ ~Succeeded(last) => ~fs[last.path].readable

\* C9's case: a content with a carriage return was written and read back.
C9_Witness ==
    /\ IsReadAfterOverwrite
    /\ Succeeded(last)
    /\ CR \in Range(prevWrite.content)

RECURSIVE PlanChunks(_)
PlanChunks(log) ==
    IF log = <<>> THEN <<>>
    ELSE IF Head(log).op = "append"
         THEN <<LF>> \o Head(log).content \o PlanChunks(Tail(log))
         ELSE Head(log).content \o PlanChunks(Tail(log))

\* C10: after create_plan and append_plan calls only, a plan file that exists
\* holds the header, then the content of the latest create_plan (nothing if
\* there was none), then "\n" and the content of each later append_plan, in
\* call order.
C10_PlanContent ==
    (planOnly /\ fs[PlanFile].kind = "file") =>
        fs[PlanFile].data = Header \o PlanChunks(planLog)

\* C10's case: a create_plan that replaced an earlier body, then an append.
C10_Witness ==
    /\ planOnly
    /\ n = 3
    /\ fs[PlanFile].kind = "file"
    /\ Len(planLog) = 2
    /\ planLog[1].op = "create"
    /\ planLog[2].op = "append"

====
